---- MODULE Spec2Model ----
(***************************************************************************)
(* Reconciliation engine of the FIC dashboard: scheduler.py (the pass, the *)
(* response cache, the error feed, the interval job) and the handlers of   *)
(* app.py that write the incidents table (manual refresh, respond,         *)
(* reprioritise, resolve).                                                 *)
(*                                                                         *)
(* Storage: database.py opens DuckDB connections and nothing in the        *)
(* sources issues BEGIN, so every conn.execute() is its own transaction:   *)
(* a statement is visible to every other connection as soon as it returns, *)
(* conn.commit() has nothing to commit and conn.rollback() has nothing to  *)
(* undo (DuckDB answers it with "no transaction is active").               *)
(***************************************************************************)
EXTENDS Integers, Sequences, FiniteSets, TLC

VARIABLES
    now,                \* wall clock in seconds (database.now_utc)
    incidents,          \* the incidents table, rows in insertion order
    incident_id_seq,    \* next value of the sequence incident_id_seq
    api_data_cache,     \* scheduler.api_data_cache
    api_error_state,    \* scheduler.api_error_state
    last_refresh_time,  \* app_state row 'last_refresh_time'
    scheduler,          \* the BackgroundScheduler: running, job, next fire
    main_pc,            \* position of the main thread (app.py __main__)
    MOCK_API_URL,       \* flask_app.config["MOCK_API_URL"]
    pass,               \* per thread: the frame of fetch_and_update_job_statuses
    requests,           \* number of requests the web layer has served
    last_reported       \* history: per job id, the time of the last pass that
                        \* met a record of it in its payload (NoTime: none)

vars == <<now, incidents, incident_id_seq, api_data_cache, api_error_state,
          last_refresh_time, scheduler, main_pc, MOCK_API_URL, pass,
          requests, last_reported>>

----------------------------------------------------------------------------
(* Bounds of the exploration *)

MaxTime == 150          \* the clock of a long run stops here
MaxOverlapTime == 30    \* seconds of a run explored when threads overlap
MaxRows == 3            \* no pass starts once the table holds this many rows
MaxRequests == 1        \* requests the web layer serves per run
MaxPassTime == 30       \* seconds a thread may stay in one pass
MaxCalls == 2           \* repeated calls of the scheduler set-up

----------------------------------------------------------------------------
(* Program constants *)

CACHE_DURATION_SECONDS == 25
grace_period_seconds == 120
INTERVAL_SECONDS == 30

None == "None"          \* Python None / SQL NULL of a VARCHAR column
NoTime == -1            \* SQL NULL of a TIMESTAMPTZ column / Python None

ActiveStatuses == {"CRITICAL", "ERROR", "WARNING"}
InactiveStatuses == {"OK", "LOG"}

\* The threads that run a pass: "sched" is the thread that runs the pass on
\* behalf of the scheduler module (the start-up call of schedule_api_fetch and
\* the APScheduler job), "manual" a request thread serving POST /refresh-data.
Procs == {"sched", "manual"}

----------------------------------------------------------------------------
(* Inputs: what the upstream source may answer *)

JobRecord(id, name, status, log_url) ==
    [id |-> id, name |-> name, status |-> status, log_url |-> log_url]

\* A JSON array element that is not an object (job_data.get raises on it).
NotAnObject == [not_an_object |-> TRUE]

Critical == JobRecord("j1", "Backup", "CRITICAL", "u1")
Error == JobRecord("j1", "Backup", "ERROR", "u2")
Ok == JobRecord("j1", "Backup", "OK", "u1")
Paused == JobRecord("j1", "Backup", "PAUSED", "u1")
Nameless == JobRecord("j1", None, "CRITICAL", "u1")
OtherLog == JobRecord("j2", "Sync", "LOG", "u1")
OtherWarning == JobRecord("j2", "Sync", "WARNING", "u1")

\* The answers explored when threads overlap.
FewPayloads ==
    { <<>>,
      <<Critical>>,
      <<Ok>>,
      <<Critical, Error>>,
      <<Error, Critical>>,
      <<Critical, NotAnObject>>,
      <<OtherLog>> }

\* The answers explored over a long run of the interval job.
Payloads ==
    { <<>>,
      <<Critical>>,
      <<Ok>>,
      <<Paused>>,
      <<Nameless>>,
      <<OtherLog>>,
      <<OtherWarning, NotAnObject>> }

JobIds == {"j1", "j2"}

----------------------------------------------------------------------------
(* The incidents table and the statements the program runs on it *)

\* A row as INSERT leaves it: the columns the statement does not name are NULL.
NewRow(id, job_api_id, job_name, status, log_url, t) ==
    [ id |-> id,
      job_api_id |-> job_api_id,
      job_name |-> job_name,
      status |-> status,
      priority |-> None,
      log_url |-> log_url,
      first_detected_at |-> t,
      responded_at |-> NoTime,
      resolved_at |-> NoTime,
      responding_engineer_id |-> None,
      inc_number |-> None,
      inc_link |-> None,
      notes |-> None,
      last_api_update |-> t,
      resolve_notes |-> None ]

\* resolved_at IS NULL
IsOpen(r) == r.resolved_at = NoTime

\* Variant of the comparison below in which NULL equals NULL.
SqlEq_NullEqualsNull(a, b) == a = b

\* job_api_id = ? : SQL equality, never true of a NULL
SqlEq(a, b) == a # None /\ b # None /\ a = b

\* WHERE job_api_id = ? AND resolved_at IS NULL
OpenRowsOf(rows, job_api_id) ==
    { i \in DOMAIN rows : SqlEq(rows[i].job_api_id, job_api_id) /\ IsOpen(rows[i]) }

\* SELECT job_api_id, status, resolved_at FROM incidents WHERE resolved_at IS NULL
\* turned into a dict keyed by job_api_id: of several open rows of one id the
\* dict keeps one, whichever the scan returns last.
OpenKeys(rows) == { rows[i].job_api_id : i \in { j \in DOMAIN rows : IsOpen(rows[j]) } }

ActiveDicts(rows) ==
    { d \in [OpenKeys(rows) -> { rows[i].status : i \in DOMAIN rows }] :
        \A k \in OpenKeys(rows) :
            \E i \in DOMAIN rows :
                /\ IsOpen(rows[i])
                /\ rows[i].job_api_id = k
                /\ rows[i].status = d[k] }

\* UPDATE incidents SET status = ?, log_url = ?, last_api_update = ?
\* WHERE job_api_id = ? AND resolved_at IS NULL
UpdateStatus(rows, status, log_url, t, job_api_id) ==
    [ i \in DOMAIN rows |->
        IF i \in OpenRowsOf(rows, job_api_id)
        THEN [rows[i] EXCEPT !.status = status, !.log_url = log_url,
                             !.last_api_update = t]
        ELSE rows[i] ]

\* Variant of the statement below without "AND resolved_at IS NULL".
UpdateLastSeen_AnyRow(rows, log_url, t, job_api_id) ==
    [ i \in DOMAIN rows |->
        IF SqlEq(rows[i].job_api_id, job_api_id)
        THEN [rows[i] EXCEPT !.log_url = log_url, !.last_api_update = t]
        ELSE rows[i] ]

\* UPDATE incidents SET log_url = ?, last_api_update = ?
\* WHERE job_api_id = ? AND resolved_at IS NULL
UpdateLastSeen(rows, log_url, t, job_api_id) ==
    [ i \in DOMAIN rows |->
        IF i \in OpenRowsOf(rows, job_api_id)
        THEN [rows[i] EXCEPT !.log_url = log_url, !.last_api_update = t]
        ELSE rows[i] ]

\* Variant of the statement below whose sequence hands out its start value
\* every time.
InsertIncident_SequenceReset(rows, id, job_api_id, job_name, status, log_url, t) ==
    Append(rows, NewRow(1, job_api_id, job_name, status, log_url, t))

\* INSERT INTO incidents (job_api_id, job_name, status, log_url,
\*                        first_detected_at, last_api_update) VALUES (...)
\* with id DEFAULT nextval('incident_id_seq')
InsertIncident(rows, id, job_api_id, job_name, status, log_url, t) ==
    Append(rows, NewRow(id, job_api_id, job_name, status, log_url, t))

\* Variant of the statement below that leaves responded_at alone, as the
\* sweep's statement does.
ResolveViaApi_NoBackfill(rows, t, status, job_api_id) ==
    [ i \in DOMAIN rows |->
        IF i \in OpenRowsOf(rows, job_api_id)
        THEN [rows[i] EXCEPT
                !.resolved_at = t,
                !.status = status,
                !.last_api_update = t]
        ELSE rows[i] ]

\* Variant of the statement below without "AND resolved_at IS NULL".
ResolveViaApi_AnyRow(rows, t, status, job_api_id) ==
    [ i \in DOMAIN rows |->
        IF SqlEq(rows[i].job_api_id, job_api_id)
        THEN [rows[i] EXCEPT
                !.resolved_at = t,
                !.status = status,
                !.last_api_update = t,
                !.responded_at = IF rows[i].responded_at = NoTime
                                 THEN rows[i].first_detected_at
                                 ELSE rows[i].responded_at]
        ELSE rows[i] ]

\* Variant of the statement below with responded_at = first_detected_at in
\* place of the CASE.
ResolveViaApi_AlwaysBackfill(rows, t, status, job_api_id) ==
    [ i \in DOMAIN rows |->
        IF i \in OpenRowsOf(rows, job_api_id)
        THEN [rows[i] EXCEPT
                !.resolved_at = t,
                !.status = status,
                !.last_api_update = t,
                !.responded_at = rows[i].first_detected_at]
        ELSE rows[i] ]

\* UPDATE incidents SET resolved_at = ?, status = ?, last_api_update = ?,
\*   responded_at = CASE WHEN responded_at IS NULL THEN first_detected_at
\*                       ELSE responded_at END
\* WHERE job_api_id = ? AND resolved_at IS NULL
ResolveViaApi(rows, t, status, job_api_id) ==
    [ i \in DOMAIN rows |->
        IF i \in OpenRowsOf(rows, job_api_id)
        THEN [rows[i] EXCEPT
                !.resolved_at = t,
                !.status = status,
                !.last_api_update = t,
                !.responded_at = IF rows[i].responded_at = NoTime
                                 THEN rows[i].first_detected_at
                                 ELSE rows[i].responded_at]
        ELSE rows[i] ]

\* UPDATE incidents SET resolved_at = ? WHERE job_api_id = ? AND resolved_at IS NULL
ResolveMissing(rows, t, job_api_id) ==
    [ i \in DOMAIN rows |->
        IF i \in OpenRowsOf(rows, job_api_id)
        THEN [rows[i] EXCEPT !.resolved_at = t]
        ELSE rows[i] ]

\* UPDATE incidents SET responding_engineer_id = ?, priority = ?, responded_at = ?,
\*   inc_number = ?, inc_link = ? WHERE id = ? AND responded_at IS NULL
RespondUpdate(rows, engineer_id, priority, t, inc_number, inc_link, incident_id) ==
    [ i \in DOMAIN rows |->
        IF rows[i].id = incident_id /\ rows[i].responded_at = NoTime
        THEN [rows[i] EXCEPT
                !.responding_engineer_id = engineer_id,
                !.priority = priority,
                !.responded_at = t,
                !.inc_number = inc_number,
                !.inc_link = inc_link]
        ELSE rows[i] ]

\* UPDATE incidents SET priority = ? WHERE id = ?
PriorityUpdate(rows, priority, incident_id) ==
    [ i \in DOMAIN rows |->
        IF rows[i].id = incident_id
        THEN [rows[i] EXCEPT !.priority = priority]
        ELSE rows[i] ]

\* UPDATE incidents SET resolved_at = ?, resolve_notes = ? WHERE id = ?
ManualResolveUpdate(rows, t, resolve_notes, incident_id) ==
    [ i \in DOMAIN rows |->
        IF rows[i].id = incident_id
        THEN [rows[i] EXCEPT !.resolved_at = t, !.resolve_notes = resolve_notes]
        ELSE rows[i] ]

----------------------------------------------------------------------------
(* State of a thread inside fetch_and_update_job_statuses *)

\* The frame of a thread that is not inside the function.
IdleFrame ==
    [ pc |-> "idle",
      origin |-> "none",            \* "startup", "timer" or "manual"
      current_time |-> NoTime,      \* line 92
      api_jobs |-> <<>>,            \* None and [] are both falsy: both are <<>>
      error |-> None,               \* str(e) of the fetch failure being recorded
      db_active_incidents |-> <<>>, \* line 158, job_api_id -> status
      api_job_ids_seen |-> {},      \* line 163
      index |-> 0,                  \* position of the for loop of line 165
      todo |-> {},                  \* keys the loop of line 268 has yet to visit
      job_api_id |-> None,          \* the key whose UPDATE of line 283 is due
      before |-> <<>>,              \* history: the table when the thread entered
      refresh_before |-> NoTime,    \* history: the marker when the thread entered
      disturbed |-> "no",           \* history: where the thread was when someone
                                    \* else last wrote the table ("no": nobody did)
      cached |-> FALSE ]            \* history: api_jobs came from the cache

\* Python truthiness of a payload: None and the empty list are falsy.
Truthy(jobs) == jobs # <<>>

\* Lines 95-104: the cached payload when it is fresh, None otherwise.
CachedJobs(cache, current_time) ==
    IF Truthy(cache.data) /\ cache.last_fetched # NoTime
    THEN IF current_time - cache.last_fetched < CACHE_DURATION_SECONDS
         THEN cache.data
         ELSE <<>>
    ELSE <<>>

IsObject(job_data) == "id" \in DOMAIN job_data

\* Line 173: not job_api_id or not job_name or not status
Incomplete(job_data) ==
    job_data.id = None \/ job_data.name = None \/ job_data.status = None

TypeOK ==
    /\ now \in Nat
    /\ incident_id_seq \in Nat
    /\ main_pc \in {"start", "initial_fetch", "serving", "crashed"}
    /\ \A p \in Procs : pass[p].pc \in
         { "idle", "fetch", "error_flag", "error_text", "error_time",
           "cache_data", "cache_time", "clear_flag", "clear_text",
           "read", "loop", "sweep", "resolve_missing", "commit", "except",
           "raised", "returned" }

\* The process starts at instant t on the database file `stored`; the
\* module globals of scheduler.py are fresh (lines 35-45).
Boot(t, stored) ==
    /\ now = t
    /\ incidents = stored.incidents
    /\ incident_id_seq = stored.incident_id_seq
    /\ api_data_cache = [data |-> <<>>, is_none |-> TRUE, last_fetched |-> NoTime]
    /\ api_error_state = [has_error |-> FALSE, last_error |-> None,
                          last_error_time |-> NoTime]
    /\ last_refresh_time = stored.last_refresh_time
    /\ scheduler = [running |-> FALSE, job |-> FALSE, next_run_time |-> NoTime,
                    calls_again |-> 0]
    /\ main_pc = "start"
    /\ MOCK_API_URL \in {"", "http://localhost:5001/api/jobs"}
    /\ pass = [p \in Procs |-> IdleFrame]
    /\ requests = 0
    /\ last_reported = [j \in JobIds |-> IF j = "j1" THEN stored.reported ELSE NoTime]

\* database.py lines 14-61: init_db on a new file creates an empty table
\* and a sequence that starts at 1.
NewDatabase ==
    [ incidents |-> <<>>, incident_id_seq |-> 1, last_refresh_time |-> NoTime,
      reported |-> NoTime ]

\* Files an earlier run of the program left behind (init_db keeps what it
\* finds): j1 was found failing at instant 0 and then left open, resolved by
\* an OK report at 30, or taken by an engineer at 25.
Detected == InsertIncident(<<>>, 1, "j1", "Backup", "CRITICAL", "u1", 0)

StoredDatabases ==
    { NewDatabase,
      [ incidents |-> Detected, incident_id_seq |-> 2, last_refresh_time |-> 0,
        reported |-> 0 ],
      [ incidents |-> ResolveViaApi(Detected, INTERVAL_SECONDS, "OK", "j1"),
        incident_id_seq |-> 2, last_refresh_time |-> INTERVAL_SECONDS,
        reported |-> INTERVAL_SECONDS ],
      [ incidents |-> RespondUpdate(Detected, "eng1", "P1", CACHE_DURATION_SECONDS,
                                    "INC1", "link1", 1),
        incident_id_seq |-> 2, last_refresh_time |-> 0, reported |-> 0 ] }

\* First start on a new database.
Init == Boot(0, NewDatabase)

\* A restart, long after the earlier run stopped.
RestartTime == MaxTime

InitRestart == \E stored \in StoredDatabases : Boot(RestartTime, stored)

\* Whoever else is inside the function learns that the table was written.
Disturb(frames, writer) ==
    [ q \in Procs |->
        IF q # writer /\ frames[q].pc # "idle"
        THEN [frames[q] EXCEPT !.disturbed = frames[q].pc, !.before = <<>>]
        ELSE frames[q] ]

\* Variant of the choice below without the test of line 143.
AfterFetch_AlwaysReads(jobs) == "read"

\* Lines 143-145: with a job list the thread goes on to read the table,
\* with None or an empty list it returns.
AfterFetch(jobs) == IF Truthy(jobs) THEN "read" ELSE "returned"

\* Lines 92-107: entry of fetch_and_update_job_statuses.
Enter(p, origin) ==
    LET cached == CachedJobs(api_data_cache, now) IN
    /\ pass[p].pc = "idle"
    /\ Len(incidents) < MaxRows
    /\ pass' = [pass EXCEPT ![p] =
                  [IdleFrame EXCEPT
                     !.pc = IF Truthy(cached) THEN AfterFetch(cached) ELSE "fetch",
                     !.origin = origin,
                     !.current_time = now,
                     !.api_jobs = cached,
                     !.before = incidents,
                     !.refresh_before = last_refresh_time,
                     !.cached = Truthy(cached)]]


----------------------------------------------------------------------------
(* fetch_and_update_job_statuses, statement by statement *)

\* Lines 107-121 and the except clauses' entry: the HTTP GET and its outcomes.
FetchNotConfigured(p) ==
    /\ pass[p].pc = "fetch"
    /\ MOCK_API_URL = ""
    /\ pass' = [pass EXCEPT ![p].pc = "error_flag",
                            ![p].error = "API_URL not configured"]
    /\ UNCHANGED <<now, incidents, incident_id_seq, api_data_cache, api_error_state,
                   last_refresh_time, scheduler, main_pc, MOCK_API_URL, requests, last_reported>>

\* Variant of the failure below that also forgets the cached payload.
FetchFails_DropsCache(p) ==
    /\ pass[p].pc = "fetch"
    /\ MOCK_API_URL # ""
    /\ \E e \in {"RequestError", "Exception"} :
         pass' = [pass EXCEPT ![p].pc = "error_flag", ![p].error = e]
    /\ api_data_cache' = [api_data_cache EXCEPT !.data = <<>>]
    /\ UNCHANGED <<now, incidents, incident_id_seq, api_error_state,
                   last_refresh_time, scheduler, main_pc, MOCK_API_URL, requests, last_reported>>

\* httpx.RequestError (transport error, timeout after 10 s) or any other
\* exception (raise_for_status, response.json).
FetchFails(p) ==
    /\ pass[p].pc = "fetch"
    /\ MOCK_API_URL # ""
    /\ \E e \in {"RequestError", "Exception"} :
         pass' = [pass EXCEPT ![p].pc = "error_flag", ![p].error = e]
    /\ UNCHANGED <<now, incidents, incident_id_seq, api_data_cache, api_error_state,
                   last_refresh_time, scheduler, main_pc, MOCK_API_URL, requests, last_reported>>

FetchSucceeds(p, payloads) ==
    /\ pass[p].pc = "fetch"
    /\ MOCK_API_URL # ""
    /\ \E payload \in payloads :
         pass' = [pass EXCEPT ![p].pc = "cache_data", ![p].api_jobs = payload]
    /\ UNCHANGED <<now, incidents, incident_id_seq, api_data_cache, api_error_state,
                   last_refresh_time, scheduler, main_pc, MOCK_API_URL, requests, last_reported>>

\* Variant of the return below that goes on with the cached payload.
ErrorReturn_StaleCache(f, cache) ==
    [f EXCEPT !.pc = AfterFetch(cache.data), !.api_jobs = cache.data]

\* Lines 116, 135, 141: the error is recorded, the function returns; the
\* cached payload is not consulted.
ErrorReturn(f, cache) == [f EXCEPT !.pc = "returned"]

\* Variant of the assignments below that stamps the error with the clock
\* instead of the pass's current_time.
RecordError_StampsNow(p) ==
    /\ \/ /\ pass[p].pc = "error_flag"
          /\ api_error_state' = [api_error_state EXCEPT !.has_error = TRUE]
          /\ pass' = [pass EXCEPT ![p].pc = "error_text"]
       \/ /\ pass[p].pc = "error_text"
          /\ api_error_state' = [api_error_state EXCEPT !.last_error = pass[p].error]
          /\ pass' = [pass EXCEPT ![p].pc = "error_time"]
       \/ /\ pass[p].pc = "error_time"
          /\ api_error_state' = [api_error_state EXCEPT !.last_error_time = now]
          /\ pass' = [pass EXCEPT ![p] = ErrorReturn(pass[p], api_data_cache)]
    /\ UNCHANGED <<now, incidents, incident_id_seq, api_data_cache,
                   last_refresh_time, scheduler, main_pc, MOCK_API_URL, requests, last_reported>>

\* Lines 113-116, 132-135, 138-141: the three assignments and the return.
RecordError(p) ==
    /\ \/ /\ pass[p].pc = "error_flag"
          /\ api_error_state' = [api_error_state EXCEPT !.has_error = TRUE]
          /\ pass' = [pass EXCEPT ![p].pc = "error_text"]
       \/ /\ pass[p].pc = "error_text"
          /\ api_error_state' = [api_error_state EXCEPT !.last_error = pass[p].error]
          /\ pass' = [pass EXCEPT ![p].pc = "error_time"]
       \/ /\ pass[p].pc = "error_time"
          /\ api_error_state' =
               [api_error_state EXCEPT !.last_error_time = pass[p].current_time]
          /\ pass' = [pass EXCEPT ![p] = ErrorReturn(pass[p], api_data_cache)]
    /\ UNCHANGED <<now, incidents, incident_id_seq, api_data_cache,
                   last_refresh_time, scheduler, main_pc, MOCK_API_URL, requests, last_reported>>

\* Lines 124-125: the cache takes the payload, then the fetch instant.
UpdateCache(p) ==
    /\ \/ /\ pass[p].pc = "cache_data"
          /\ api_data_cache' = [api_data_cache EXCEPT !.data = pass[p].api_jobs,
                                                      !.is_none = FALSE]
          /\ pass' = [pass EXCEPT ![p].pc = "cache_time"]
       \/ /\ pass[p].pc = "cache_time"
          /\ api_data_cache' =
               [api_data_cache EXCEPT !.last_fetched = pass[p].current_time]
          /\ pass' = [pass EXCEPT ![p].pc = "clear_flag"]
    /\ UNCHANGED <<now, incidents, incident_id_seq, api_error_state,
                   last_refresh_time, scheduler, main_pc, MOCK_API_URL, requests, last_reported>>

\* Lines 127-128: the error state is cleared.
ClearError(p) ==
    /\ \/ /\ pass[p].pc = "clear_flag"
          /\ api_error_state' = [api_error_state EXCEPT !.has_error = FALSE]
          /\ pass' = [pass EXCEPT ![p].pc = "clear_text"]
       \/ /\ pass[p].pc = "clear_text"
          /\ api_error_state' = [api_error_state EXCEPT !.last_error = None]
          /\ pass' = [pass EXCEPT ![p].pc = AfterFetch(pass[p].api_jobs)]
    /\ UNCHANGED <<now, incidents, incident_id_seq, api_data_cache,
                   last_refresh_time, scheduler, main_pc, MOCK_API_URL, requests, last_reported>>

\* Lines 150-163: the open incidents are read once, before the loop.
ReadActive(p) ==
    /\ pass[p].pc = "read"
    /\ \E d \in ActiveDicts(incidents) :
         pass' = [pass EXCEPT ![p].pc = "loop",
                              ![p].db_active_incidents = d,
                              ![p].api_job_ids_seen = {},
                              ![p].index = 1]
    /\ UNCHANGED <<now, incidents, incident_id_seq, api_data_cache, api_error_state,
                   last_refresh_time, scheduler, main_pc, MOCK_API_URL, requests, last_reported>>

\* Variant of the choice below that never leaves the sweep.
SweepOrCommit_StaysInSweep(todo) == "sweep"

\* Where the thread goes when the sweep has `todo` left to visit.
SweepOrCommit(todo) == IF todo = {} THEN "commit" ELSE "sweep"

\* The frame after the loop body ran on record number f.index: the next
\* record, or the sweep of line 268 over the keys that were not seen.
Advance(f, seen) ==
    IF f.index < Len(f.api_jobs)
    THEN [f EXCEPT !.index = f.index + 1, !.api_job_ids_seen = seen]
    ELSE [f EXCEPT !.index = 0,
                   !.api_job_ids_seen = seen,
                   !.todo = DOMAIN f.db_active_incidents \ seen,
                   !.pc = SweepOrCommit(DOMAIN f.db_active_incidents \ seen)]

\* Variant of the choice below that does not look the id up in the open set
\* before it inserts.
Transition_InsertsUnseen(rows, id, active, job_data, t) ==
    IF job_data.status \in ActiveStatuses
    THEN InsertIncident(rows, id, job_data.id, job_data.name,
                        job_data.status, job_data.log_url, t)
    ELSE IF job_data.status \in InactiveStatuses /\ job_data.id \in DOMAIN active
         THEN ResolveViaApi(rows, t, job_data.status, job_data.id)
         ELSE rows

\* Lines 183-258: the statement the loop body runs for a complete record.
Transition(rows, id, active, job_data, t) ==
    IF job_data.status \in ActiveStatuses
    THEN IF job_data.id \in DOMAIN active
         THEN IF active[job_data.id] # job_data.status
              THEN UpdateStatus(rows, job_data.status, job_data.log_url, t,
                                job_data.id)
              ELSE UpdateLastSeen(rows, job_data.log_url, t, job_data.id)
         ELSE InsertIncident(rows, id, job_data.id, job_data.name,
                             job_data.status, job_data.log_url, t)
    ELSE IF job_data.status \in InactiveStatuses /\ job_data.id \in DOMAIN active
         THEN ResolveViaApi(rows, t, job_data.status, job_data.id)
         ELSE rows

\* Lines 165-258: one iteration of the for loop.
\* History: the pass of time t met a record of job id `id`.
Reported(history, id, t) ==
    IF id \in DOMAIN history THEN [history EXCEPT ![id] = t] ELSE history

ProcessRecord(p) ==
    LET f == pass[p]
        job_data == f.api_jobs[f.index]
    IN
    /\ f.pc = "loop"
    /\ IF ~IsObject(job_data)
       THEN \* job_data.get raises AttributeError: control goes to line 306
            /\ pass' = [pass EXCEPT ![p].pc = "except"]
            /\ UNCHANGED <<incidents, incident_id_seq, last_reported>>
       ELSE IF Incomplete(job_data)
       THEN /\ pass' = [pass EXCEPT ![p] = Advance(f, f.api_job_ids_seen)]
            /\ last_reported' = Reported(last_reported, job_data.id, f.current_time)
            /\ UNCHANGED <<incidents, incident_id_seq>>
       ELSE LET rows == Transition(incidents, incident_id_seq,
                                   f.db_active_incidents, job_data, f.current_time)
                next == [pass EXCEPT ![p] =
                           Advance(f, f.api_job_ids_seen \cup {job_data.id})]
            IN
            /\ incidents' = rows
            /\ incident_id_seq' = IF Len(rows) > Len(incidents)
                                  THEN incident_id_seq + 1
                                  ELSE incident_id_seq
            /\ pass' = IF rows = incidents THEN next ELSE Disturb(next, p)
            /\ last_reported' = Reported(last_reported, job_data.id, f.current_time)
    /\ UNCHANGED <<now, api_data_cache, api_error_state, last_refresh_time,
                   scheduler, main_pc, MOCK_API_URL, requests>>

\* Line 279: time_since_last_api_update > grace_period_seconds
PastGrace(current_time, last_api_update) ==
    current_time - last_api_update > grace_period_seconds

\* Lines 268-279: the sweep visits a key that was not seen and reads the
\* last_api_update of an open row of it (fetchone: any one of them).
SweepSelect(p) ==
    LET f == pass[p] IN
    /\ f.pc = "sweep"
    /\ \E k \in f.todo :
         LET open == OpenRowsOf(incidents, k)
             rest == f.todo \ {k}
         IN
         \/ /\ open = {}      \* no row, or the key is None: lines 294-297
            /\ pass' = [pass EXCEPT ![p].todo = rest,
                                    ![p].pc = SweepOrCommit(rest)]
         \/ \E i \in open :
              IF /\ incidents[i].last_api_update # NoTime
                 /\ PastGrace(f.current_time, incidents[i].last_api_update)
              THEN pass' = [pass EXCEPT ![p].todo = rest,
                                        ![p].job_api_id = k,
                                        ![p].pc = "resolve_missing"]
              ELSE pass' = [pass EXCEPT ![p].todo = rest,
                                        ![p].pc = SweepOrCommit(rest)]
    /\ UNCHANGED <<now, incidents, incident_id_seq, api_data_cache, api_error_state,
                   last_refresh_time, scheduler, main_pc, MOCK_API_URL, requests, last_reported>>

\* Lines 283-289: the incident that went unreported is resolved.
SweepResolve(p) ==
    LET f == pass[p]
        rows == ResolveMissing(incidents, f.current_time, f.job_api_id)
        next == [pass EXCEPT ![p].job_api_id = None,
                             ![p].pc = SweepOrCommit(f.todo)]
    IN
    /\ f.pc = "resolve_missing"
    /\ incidents' = rows
    /\ pass' = IF rows = incidents THEN next ELSE Disturb(next, p)
    /\ UNCHANGED <<now, incident_id_seq, api_data_cache, api_error_state,
                   last_refresh_time, scheduler, main_pc, MOCK_API_URL, requests, last_reported>>

\* Lines 299-304: conn.commit() finds every statement already committed;
\* update_last_refresh_time_in_db (lines 48-75) then stamps the marker with
\* a fresh now_utc().
Commit(p) ==
    /\ pass[p].pc = "commit"
    /\ last_refresh_time' = now
    /\ pass' = [pass EXCEPT ![p].pc = "returned"]
    /\ UNCHANGED <<now, incidents, incident_id_seq, api_data_cache, api_error_state,
                   scheduler, main_pc, MOCK_API_URL, requests, last_reported>>

\* Lines 306-312: conn.rollback() has no transaction to roll back: nothing
\* is undone, and the error it raises leaves the function.
Rollback(p) ==
    /\ pass[p].pc = "except"
    /\ pass' = [pass EXCEPT ![p].pc = "raised"]
    /\ UNCHANGED <<now, incidents, incident_id_seq, api_data_cache, api_error_state,
                   last_refresh_time, scheduler, main_pc, MOCK_API_URL, requests, last_reported>>

----------------------------------------------------------------------------
(* The callers of the pass *)

\* start_scheduler (lines 340-351) on a scheduler that is not running calls
\* schedule_api_fetch (lines 315-337), which finds no job and runs a first
\* pass in the calling thread.
StartScheduler ==
    /\ main_pc = "start"
    /\ ~scheduler.running /\ ~scheduler.job
    /\ Enter("sched", "startup")
    /\ main_pc' = "initial_fetch"
    /\ UNCHANGED <<now, incidents, incident_id_seq, api_data_cache, api_error_state,
                   last_refresh_time, scheduler, MOCK_API_URL, requests, last_reported>>

\* The first pass is over. When it returned, schedule_api_fetch adds the
\* interval job (lines 325-332), start_scheduler starts the scheduler (line
\* 348) and app.run serves requests; when it raised, the error leaves
\* start_scheduler and the process ends before app.run.
StartupDone ==
    /\ pass["sched"].origin = "startup"
    /\ \/ /\ pass["sched"].pc = "returned"
          /\ scheduler' = [scheduler EXCEPT
                              !.running = TRUE, !.job = TRUE,
                              !.next_run_time = now + INTERVAL_SECONDS]
          /\ main_pc' = "serving"
       \/ /\ pass["sched"].pc = "raised"
          /\ main_pc' = "crashed"
          /\ UNCHANGED scheduler
    /\ pass' = [pass EXCEPT !["sched"] = IdleFrame]
    /\ UNCHANGED <<now, incidents, incident_id_seq, api_data_cache, api_error_state,
                   last_refresh_time, MOCK_API_URL, requests, last_reported>>

\* The interval job fires (lines 325-332: every 30 seconds, one instance at
\* a time) and the scheduler's thread enters the pass.
TimerFire ==
    /\ scheduler.running /\ scheduler.job
    /\ now = scheduler.next_run_time
    /\ Enter("sched", "timer")
    /\ scheduler' = [scheduler EXCEPT !.next_run_time = now + INTERVAL_SECONDS]
    /\ UNCHANGED <<now, incidents, incident_id_seq, api_data_cache, api_error_state,
                   last_refresh_time, main_pc, MOCK_API_URL, requests, last_reported>>

\* The job fires while its previous run has not finished: the run is skipped.
TimerSkip ==
    /\ scheduler.running /\ scheduler.job
    /\ now = scheduler.next_run_time
    /\ pass["sched"].pc # "idle"
    /\ scheduler' = [scheduler EXCEPT !.next_run_time = now + INTERVAL_SECONDS]
    /\ UNCHANGED <<now, incidents, incident_id_seq, api_data_cache, api_error_state,
                   last_refresh_time, main_pc, MOCK_API_URL, pass, requests, last_reported>>

\* The job's run is over, returned or raised (APScheduler logs the error).
TimerDone ==
    /\ pass["sched"].origin = "timer"
    /\ pass["sched"].pc \in {"returned", "raised"}
    /\ pass' = [pass EXCEPT !["sched"] = IdleFrame]
    /\ UNCHANGED <<now, incidents, incident_id_seq, api_data_cache, api_error_state,
                   last_refresh_time, scheduler, main_pc, MOCK_API_URL, requests, last_reported>>

\* app.py lines 531-540: POST /refresh-data calls the pass in the request's
\* thread, whatever the scheduler's thread is doing.
RefreshData ==
    /\ main_pc = "serving"
    /\ requests < MaxRequests
    /\ Enter("manual", "manual")
    /\ requests' = requests + 1
    /\ UNCHANGED <<now, incidents, incident_id_seq, api_data_cache, api_error_state,
                   last_refresh_time, scheduler, main_pc, MOCK_API_URL, last_reported>>

\* app.py lines 541-544: when the pass returned, however it went,
\* update_last_refresh_time (lines 363-388) stamps the marker; when it
\* raised, the request ends with the error.
RefreshDone ==
    /\ pass["manual"].origin = "manual"
    /\ \/ /\ pass["manual"].pc = "returned"
          /\ last_refresh_time' = now
       \/ /\ pass["manual"].pc = "raised"
          /\ UNCHANGED last_refresh_time
    /\ pass' = [pass EXCEPT !["manual"] = IdleFrame]
    /\ UNCHANGED <<now, incidents, incident_id_seq, api_data_cache, api_error_state,
                   scheduler, main_pc, MOCK_API_URL, requests, last_reported>>

----------------------------------------------------------------------------
(* The CRUD layer's writes to the incidents table *)

IncidentIds == { incidents[i].id : i \in DOMAIN incidents }

\* app.py lines 638-672: POST /respond-incident/<id> with engineer and priority.
RespondIncident ==
    /\ main_pc = "serving"
    /\ requests < MaxRequests
    /\ \E incident_id \in IncidentIds :
         LET rows == RespondUpdate(incidents, "eng1", "P1", now, "INC1", "link1",
                                   incident_id)
         IN
         /\ rows # incidents
         /\ incidents' = rows
    /\ pass' = Disturb(pass, "crud")
    /\ requests' = requests + 1
    /\ UNCHANGED <<now, incident_id_seq, api_data_cache, api_error_state,
                   last_refresh_time, scheduler, main_pc, MOCK_API_URL, last_reported>>

\* app.py lines 675-694: POST /update-incident-priority/<id>.
UpdateIncidentPriority ==
    /\ main_pc = "serving"
    /\ requests < MaxRequests
    /\ \E incident_id \in IncidentIds, priority \in {"P1", "P2"} :
         LET rows == PriorityUpdate(incidents, priority, incident_id) IN
         /\ rows # incidents
         /\ incidents' = rows
    /\ pass' = Disturb(pass, "crud")
    /\ requests' = requests + 1
    /\ UNCHANGED <<now, incident_id_seq, api_data_cache, api_error_state,
                   last_refresh_time, scheduler, main_pc, MOCK_API_URL, last_reported>>

\* app.py lines 729-769: POST /resolve-incident/<id> with reason and action.
ResolveIncident ==
    /\ main_pc = "serving"
    /\ requests < MaxRequests
    /\ \E incident_id \in IncidentIds :
         LET rows == ManualResolveUpdate(incidents, now, "notes", incident_id) IN
         /\ rows # incidents
         /\ incidents' = rows
    /\ pass' = Disturb(pass, "crud")
    /\ requests' = requests + 1
    /\ UNCHANGED <<now, incident_id_seq, api_data_cache, api_error_state,
                   last_refresh_time, scheduler, main_pc, MOCK_API_URL, last_reported>>

----------------------------------------------------------------------------
(* Time *)

\* The clock is sampled at the instants that matter to the program: the
\* multiples of the fire interval and the instants one cache lifetime later.
NextInstant(t) ==
    IF t % INTERVAL_SECONDS = 0
    THEN t + CACHE_DURATION_SECONDS
    ELSE ((t \div INTERVAL_SECONDS) + 1) * INTERVAL_SECONDS

\* Time passes; a due fire of the interval job is handled before it does,
\* and no pass outlasts MaxPassTime (the GET gives up after 10 seconds,
\* line 118, and the statements are quick).
Tick(horizon) ==
    /\ main_pc # "crashed"
    /\ NextInstant(now) <= horizon
    /\ \A p \in Procs :
         pass[p].pc # "idle" =>
             NextInstant(now) - pass[p].current_time <= MaxPassTime
    /\ scheduler.running => now < scheduler.next_run_time
    /\ now' = NextInstant(now)
    /\ UNCHANGED <<incidents, incident_id_seq, api_data_cache, api_error_state,
                   last_refresh_time, scheduler, main_pc, MOCK_API_URL, pass,
                   requests, last_reported>>

----------------------------------------------------------------------------

PassStep(p, payloads) ==
    \/ FetchNotConfigured(p)
    \/ FetchFails(p)
    \/ FetchSucceeds(p, payloads)
    \/ RecordError(p)
    \/ UpdateCache(p)
    \/ ClearError(p)
    \/ ReadActive(p)
    \/ ProcessRecord(p)
    \/ SweepSelect(p)
    \/ SweepResolve(p)
    \/ Commit(p)
    \/ Rollback(p)

\* Every thread, a short run after a restart: the interval job fires once,
\* at the end of the run, so no fire finds the previous one running.
Next ==
    \/ StartScheduler
    \/ StartupDone
    \/ TimerFire
    \/ TimerDone
    \/ RefreshData
    \/ RefreshDone
    \/ RespondIncident
    \/ UpdateIncidentPriority
    \/ ResolveIncident
    \/ Tick(RestartTime + MaxOverlapTime)
    \/ \E p \in Procs : PassStep(p, FewPayloads)

Spec == InitRestart /\ [][Next]_vars

\* The interval job alone from the first start, nobody sends a request: a
\* long run.
NextTimer ==
    \/ StartScheduler
    \/ StartupDone
    \/ TimerFire
    \/ TimerSkip
    \/ TimerDone
    \/ Tick(MaxTime)
    \/ PassStep("sched", Payloads)

SpecTimer == Init /\ [][NextTimer]_vars

----------------------------------------------------------------------------
(* Vocabulary of the properties *)

\* The thread is inside fetch_and_update_job_statuses.
Running(p) == pass[p].pc \notin {"idle", "returned", "raised"}

\* The step is a statement of thread p (history fields apart).
Program(f) ==
    <<f.pc, f.origin, f.current_time, f.api_jobs, f.error, f.db_active_incidents,
      f.api_job_ids_seen, f.index, f.todo, f.job_api_id>>

StepOf(p) == Program(pass'[p]) # Program(pass[p])

\* The step is a request of the web layer.
RequestStep == requests' # requests

\* The fields a human sets through the CRUD layer.
HumanFields(r) ==
    <<r.priority, r.responding_engineer_id, r.inc_number, r.inc_link, r.notes,
      r.resolve_notes>>

\* The job ids a payload has a record of.
IdsIn(jobs) ==
    { jobs[n].id : n \in { m \in DOMAIN jobs : IsObject(jobs[m]) } }

----------------------------------------------------------------------------
(* C1 *)

\* C1: no external job id ever has two incident rows that are open
\* (resolved_at NULL) at the same time.
C1_OneOpenRowPerJob ==
    \A i, j \in DOMAIN incidents :
        ( /\ i # j
          /\ IsOpen(incidents[i])
          /\ IsOpen(incidents[j])
          /\ incidents[i].job_api_id # None )
        => incidents[i].job_api_id # incidents[j].job_api_id

----------------------------------------------------------------------------
(* C2 *)

\* C2: every incident whose resolved timestamp is set has a responded
\* timestamp, whichever operation resolved it.
C2_ResolvedHasResponded ==
    \A i \in DOMAIN incidents :
        incidents[i].resolved_at # NoTime => incidents[i].responded_at # NoTime

----------------------------------------------------------------------------
(* C3 *)

\* The step is a statement of some thread's pass.
PassStatement == \E p \in Procs : StepOf(p)

\* C3: no statement of a reconciliation pass changes any field of a row
\* whose resolved timestamp is set: the row is in the table after the
\* statement exactly as before it, whatever the payload.
C3_ResolvedRowsUntouched ==
    [][ PassStatement =>
          \A i \in DOMAIN incidents :
              ~IsOpen(incidents[i]) =>
                  /\ i \in DOMAIN incidents'
                  /\ incidents'[i] = incidents[i] ]_vars

\* A job was resolved, failed again, and a pass added a new row for it
\* beside the resolved one.
C3_RenewedFailure ==
    \E i, j \in DOMAIN incidents :
        /\ i < j
        /\ ~IsOpen(incidents[i])
        /\ incidents[j].job_api_id = incidents[i].job_api_id
        /\ incidents[j].first_detected_at > incidents[i].resolved_at
        /\ IsOpen(incidents[j])

----------------------------------------------------------------------------
(* C4 *)

\* C4: when a pass whose fetch step failed (transport error or timeout,
\* any other fetch exception, source URL not configured) has returned and
\* nobody else wrote the table meanwhile, the incidents table is exactly
\* what it was when the pass began.
C4_FetchFailureKeepsLedger ==
    \A p \in Procs :
        ( /\ pass[p].pc = "returned"
          /\ pass[p].error # None
          /\ pass[p].disturbed = "no" )
        => incidents = pass[p].before

\* A pass over a table that holds rows ended on a transport error.
C4_FailedOverRows ==
    \E p \in Procs :
        /\ pass[p].pc = "returned"
        /\ pass[p].error = "RequestError"
        /\ pass[p].disturbed = "no"
        /\ pass[p].before # <<>>
        /\ api_error_state.has_error

----------------------------------------------------------------------------
(* C5 *)

\* C5: at most one thread is inside the reconciliation pass at any time,
\* whether the timer or the manual refresh started it.
C5_OnePassAtATime ==
    Cardinality({ p \in Procs : Running(p) }) <= 1

----------------------------------------------------------------------------
(* C6 *)

\* C6: the missing-job sweep resolves an incident only when the last pass
\* that met a record of its external id (whatever the record's status, and
\* complete or not) lies at least the grace period of 120 s before the
\* sweeping pass.
C6_GraceSinceLastReport ==
    [][ \A p \in Procs :
          ( /\ pass[p].pc = "resolve_missing"
            /\ StepOf(p)
            /\ incidents' # incidents )
          => pass[p].current_time - last_reported[pass[p].job_api_id]
                 >= grace_period_seconds ]_vars

----------------------------------------------------------------------------
(* C7 *)

\* C7: when a pass over a fetched payload has returned and nobody else wrote
\* the table meanwhile, every incident that was open when the pass began,
\* whose external id has no record in the payload and whose last upstream
\* update is more than 120 s before the pass time, is resolved at the pass
\* time with its status as it was.
C7_UnreportedResolved ==
    \A p \in Procs :
        ( /\ pass[p].pc = "returned"
          /\ pass[p].error = None
          /\ pass[p].disturbed = "no" )
        => \A i \in DOMAIN pass[p].before :
               LET r == pass[p].before[i] IN
               ( /\ IsOpen(r)
                 /\ r.job_api_id # None
                 /\ r.job_api_id \notin IdsIn(pass[p].api_jobs)
                 /\ r.last_api_update # NoTime
                 /\ PastGrace(pass[p].current_time, r.last_api_update) )
               => /\ incidents[i].resolved_at = pass[p].current_time
                  /\ incidents[i].status = r.status

----------------------------------------------------------------------------
(* C8 *)

\* C8: no statement of a reconciliation pass changes priority, responding
\* engineer, incident number, incident link, notes or resolution notes of
\* any row, nor a responded timestamp that is already set; a human write
\* that lands between the pass's read of the open set and its writes
\* included.
C8_HumanFieldsKept ==
    [][ PassStatement =>
          \A i \in DOMAIN incidents :
              /\ HumanFields(incidents'[i]) = HumanFields(incidents[i])
              /\ incidents[i].responded_at # NoTime =>
                     incidents'[i].responded_at = incidents[i].responded_at ]_vars

\* An engineer took the incident after the interval job's pass had read the
\* open set, and the pass then resolved it on an OK report.
C8_RespondedDuringPass ==
    \E i \in DOMAIN incidents :
        /\ pass["sched"].disturbed = "loop"
        /\ incidents[i].status = "OK"
        /\ incidents[i].resolved_at = pass["sched"].current_time
        /\ incidents[i].responding_engineer_id # None
        /\ incidents[i].priority # None
        /\ incidents[i].responded_at >= pass["sched"].current_time

----------------------------------------------------------------------------
(* C9 *)

\* C9: when a pass has ended on an error raised in its loop over the records
\* or in its sweep, and nobody else wrote the table meanwhile, the table is
\* what it was when the pass began and so is the last-refresh marker.
C9_FailedPassLeavesNothing ==
    \A p \in Procs :
        ( /\ pass[p].pc = "raised"
          /\ pass[p].disturbed = "no" )
        => /\ incidents = pass[p].before
           /\ last_refresh_time = pass[p].refresh_before

----------------------------------------------------------------------------
(* C10 *)

\* The record the loop of thread p is about to process.
CurrentRecord(p) == pass[p].api_jobs[pass[p].index]

\* The record is complete, reports an active status, and the open set the
\* pass read has no incident of its external id.
ReportsNewFailure(p) ==
    /\ pass[p].pc = "loop"
    /\ IsObject(CurrentRecord(p))
    /\ ~Incomplete(CurrentRecord(p))
    /\ CurrentRecord(p).status \in ActiveStatuses
    /\ CurrentRecord(p).id \notin DOMAIN pass[p].db_active_incidents

----------------------------------------------------------------------------
(* C11 *)

\* The record is complete, reports an active status, and its external id
\* has an open incident: in the open set the pass read and in the table.
ReportsOpenFailure(p) ==
    /\ pass[p].pc = "loop"
    /\ IsObject(CurrentRecord(p))
    /\ ~Incomplete(CurrentRecord(p))
    /\ CurrentRecord(p).status \in ActiveStatuses
    /\ CurrentRecord(p).id \in DOMAIN pass[p].db_active_incidents
    /\ OpenRowsOf(incidents, CurrentRecord(p).id) # {}

\* C11: when the loop processes a complete record with an active status
\* for an external id that has an open incident, that incident gets the
\* reported status, the reported log reference and the pass time as
\* last-upstream-update, keeps every other field (incident id,
\* first-detected, responded, resolved among them), and the table gains no
\* row.
C11_OpenIncidentUpdated ==
    [][ \A p \in Procs :
          ( ReportsOpenFailure(p) /\ StepOf(p) ) =>
              /\ Len(incidents') = Len(incidents)
              /\ \A i \in OpenRowsOf(incidents, CurrentRecord(p).id) :
                     incidents'[i] =
                         [incidents[i] EXCEPT
                             !.status = CurrentRecord(p).status,
                             !.log_url = CurrentRecord(p).log_url,
                             !.last_api_update = pass[p].current_time] ]_vars

----------------------------------------------------------------------------
(* C12 *)

\* The record is complete, reports OK or LOG, and its external id has an
\* open incident: in the open set the pass read and in the table.
ReportsRecovery(p) ==
    /\ pass[p].pc = "loop"
    /\ IsObject(CurrentRecord(p))
    /\ ~Incomplete(CurrentRecord(p))
    /\ CurrentRecord(p).status \in InactiveStatuses
    /\ CurrentRecord(p).id \in DOMAIN pass[p].db_active_incidents
    /\ OpenRowsOf(incidents, CurrentRecord(p).id) # {}

----------------------------------------------------------------------------
(* C13 *)

\* Thread p enters the pass in this step.
Starts(p) == pass[p].pc = "idle" /\ pass'[p].pc # "idle"

\* A fetch succeeded and stored its instant less than the freshness window
\* before t.
FetchedRecently(cache, t) ==
    /\ cache.last_fetched # NoTime
    /\ t - cache.last_fetched < CACHE_DURATION_SECONDS

\* C13: a pass that starts less than 25 s after the last successful fetch
\* goes on with the payload that fetch stored, whatever it is, and sends no
\* request; a pass that starts 25 s or more after it, or before any fetch
\* succeeded, sends a request.
C13_FreshCacheUsed ==
    [][ \A p \in Procs :
          Starts(p) =>
              IF FetchedRecently(api_data_cache, now)
              THEN /\ pass'[p].pc # "fetch"
                   /\ pass'[p].api_jobs = api_data_cache.data
              ELSE pass'[p].pc = "fetch" ]_vars

----------------------------------------------------------------------------
(* C14 *)

\* The positions of a pass between the failure of its fetch and its return.
FailurePositions == {"error_flag", "error_text", "error_time", "returned"}

\* C14: the fetch cache changes only in the two assignments that follow a
\* successful fetch, the first of which stores the fetched payload and the
\* second the pass's instant; a pass whose fetch failed changes neither and
\* goes nowhere but to its return: it never goes on with the cached payload.
C14_CacheOnlyOnSuccess ==
    [][ /\ api_data_cache' # api_data_cache =>
              \E p \in Procs :
                  /\ StepOf(p)
                  /\ pass[p].error = None
                  /\ \/ /\ pass[p].pc = "cache_data"
                        /\ api_data_cache'.data = pass[p].api_jobs
                        /\ api_data_cache'.last_fetched = api_data_cache.last_fetched
                     \/ /\ pass[p].pc = "cache_time"
                        /\ api_data_cache'.last_fetched = pass[p].current_time
                        /\ api_data_cache'.data = api_data_cache.data
        /\ \A p \in Procs :
              pass'[p].error # None =>
                  /\ pass'[p].pc \in FailurePositions
                  /\ pass'[p].api_jobs = <<>>
                  /\ StepOf(p) => api_data_cache' = api_data_cache ]_vars

\* A pass has returned on a failed fetch while the cache holds the payload
\* of an earlier fetch, too old to be served.
C14_FailedWithStaleCache ==
    \E p \in Procs :
        /\ pass[p].pc = "returned"
        /\ pass[p].error # None
        /\ api_data_cache.data # <<>>
        /\ api_data_cache.last_fetched # NoTime
        /\ pass[p].current_time - api_data_cache.last_fetched >= CACHE_DURATION_SECONDS

----------------------------------------------------------------------------
(* C15 *)

\* The positions of a pass after the assignments of lines 124-128.
AfterFetchPositions ==
    {"read", "loop", "sweep", "resolve_missing", "commit", "except", "raised",
     "returned"}

----------------------------------------------------------------------------
(* C16 *)

\* The pass of thread p has its fetch and, if it got that far, its ledger
\* step behind it without error; the step at hand is its commit or what its
\* caller does after its return.
EndsSuccessfully(p) ==
    /\ pass[p].error = None
    /\ pass[p].pc \in {"commit", "returned"}

\* C16: the last-refresh marker is written only on behalf of a pass that
\* completed successfully: a step that belongs to a pass whose fetch failed
\* or whose ledger step ended in the except clause leaves the marker as it
\* was, whether the timer or the manual refresh started the pass.
C16_FailedPassKeepsMarker ==
    [][ last_refresh_time' # last_refresh_time =>
          \E p \in Procs : StepOf(p) /\ EndsSuccessfully(p) ]_vars

----------------------------------------------------------------------------
(* C17 *)

\* C17: when a pass whose fetch or cache read succeeded has returned, its
\* ledger step having raised no error, the last-refresh marker holds a time
\* not earlier than the pass's start, whatever the payload was.
C17_MarkerWritten ==
    \A p \in Procs :
        ( pass[p].pc = "returned" /\ pass[p].error = None ) =>
            /\ last_refresh_time # NoTime
            /\ last_refresh_time >= pass[p].current_time

----------------------------------------------------------------------------
(* C18 *)

\* C18: every pass the interval job starts goes to the upstream fetch, it
\* never goes on with the cached payload, manual refreshes between the
\* fires or not.
C18_TimerPassFetches ==
    [][ ( Starts("sched") /\ pass'["sched"].origin = "timer" ) =>
            pass'["sched"].pc = "fetch" ]_vars

----------------------------------------------------------------------------
(* C19 *)

\* The answers explored where termination is at stake: a record, a record
\* followed by an element that makes the loop raise, a payload that sends
\* the pass into the sweep, and none.
SomePayloads ==
    { <<>>,
      <<Critical>>,
      <<Critical, NotAnObject>>,
      <<OtherLog>> }

\* The passes of a short run after a restart: the start-up call, the
\* interval job and the manual refresh.
NextPasses ==
    \/ StartScheduler
    \/ StartupDone
    \/ TimerFire
    \/ TimerDone
    \/ RefreshData
    \/ RefreshDone
    \/ Tick(RestartTime + MaxOverlapTime)
    \/ \E p \in Procs : PassStep(p, SomePayloads)

\* A thread that is inside the pass keeps running: the operating system
\* schedules it, the GET answers or gives up (timeout=10.0, line 118), and
\* DuckDB answers every statement.
SpecFair ==
    /\ InitRestart
    /\ [][NextPasses]_vars
    /\ \A p \in Procs : WF_vars(PassStep(p, SomePayloads))

----------------------------------------------------------------------------
(* C20 *)

\* What a retry must leave as it is in a row.
Outcome(r) ==
    <<r.id, r.job_api_id, r.status, r.first_detected_at, r.responded_at,
      r.resolved_at>>

SameOutcome(rows1, rows2) ==
    /\ Len(rows1) = Len(rows2)
    /\ \A i \in DOMAIN rows1 : Outcome(rows1[i]) = Outcome(rows2[i])

\* The manual pass is a retry: it ran on the payload the cache held, which
\* the last pass of the scheduler's thread had fetched and has finished
\* with, and it began less than the freshness window later, when nothing
\* else had written the table since, and nothing else has.
RetryReturned ==
    /\ pass["manual"].pc = "returned"
    /\ pass["manual"].cached
    /\ pass["manual"].disturbed = "no"
    /\ pass["sched"].pc = "idle"
    /\ requests = 1

\* C20: a pass that is run again at once on the same payload leaves the
\* table with the same rows: same incident ids, statuses, first-detected,
\* responded and resolved values as after the first run.
C20_RetryChangesNothing ==
    RetryReturned => SameOutcome(pass["manual"].before, incidents)

----------------------------------------------------------------------------
(* C21 *)

\* C21: in every state, passes overlapping each other and human actions
\* included, the responded timestamp of an incident, if set, is not earlier
\* than its first-detected timestamp, and neither is its resolved
\* timestamp, if set.
C21_TimestampsOrdered ==
    \A i \in DOMAIN incidents :
        /\ incidents[i].responded_at # NoTime =>
               incidents[i].responded_at >= incidents[i].first_detected_at
        /\ incidents[i].resolved_at # NoTime =>
               incidents[i].resolved_at >= incidents[i].first_detected_at

----------------------------------------------------------------------------
(* C22 *)

\* scheduler.py lines 322-332, the body of schedule_api_fetch for a caller
\* other than the start of the process: without a job of the id it runs the
\* first pass (StartupDone then adds the job), with one it does nothing.
ScheduleApiFetchBody ==
    IF ~scheduler.job
    THEN /\ Enter("sched", "startup")
         /\ main_pc' = "initial_fetch"
    ELSE UNCHANGED <<pass, main_pc>>

\* Variant that does not look for the job first.
ScheduleApiFetchAgain_NoJobTest ==
    /\ main_pc = "serving"
    /\ scheduler.calls_again < MaxCalls
    /\ Enter("sched", "startup")
    /\ main_pc' = "initial_fetch"
    /\ scheduler' = [scheduler EXCEPT !.calls_again = @ + 1]
    /\ UNCHANGED <<now, incidents, incident_id_seq, api_data_cache, api_error_state,
                   last_refresh_time, MOCK_API_URL, requests, last_reported>>

\* scheduler.py lines 315-337: schedule_api_fetch is called once more while
\* the process serves.
ScheduleApiFetchAgain ==
    /\ main_pc = "serving"
    /\ scheduler.calls_again < MaxCalls
    /\ ScheduleApiFetchBody
    /\ scheduler' = [scheduler EXCEPT !.calls_again = @ + 1]
    /\ UNCHANGED <<now, incidents, incident_id_seq, api_data_cache, api_error_state,
                   last_refresh_time, MOCK_API_URL, requests, last_reported>>

\* scheduler.py lines 340-351: start_scheduler is called once more while the
\* process serves; a running scheduler makes it log and return.
StartSchedulerAgain ==
    /\ main_pc = "serving"
    /\ scheduler.calls_again < MaxCalls
    /\ IF ~scheduler.running
       THEN /\ ScheduleApiFetchBody
            /\ scheduler' =
                 [scheduler EXCEPT
                    !.calls_again = @ + 1,
                    !.running = scheduler.job,
                    !.next_run_time = IF scheduler.job
                                      THEN now + INTERVAL_SECONDS
                                      ELSE @]
       ELSE /\ scheduler' = [scheduler EXCEPT !.calls_again = @ + 1]
            /\ UNCHANGED <<pass, main_pc>>
    /\ UNCHANGED <<now, incidents, incident_id_seq, api_data_cache, api_error_state,
                   last_refresh_time, MOCK_API_URL, requests, last_reported>>

\* The start of the process and the interval job after a restart, with the
\* set-up functions called again; nobody sends a request.
NextStart ==
    \/ StartScheduler
    \/ StartupDone
    \/ StartSchedulerAgain
    \/ ScheduleApiFetchAgain
    \/ TimerFire
    \/ TimerSkip
    \/ TimerDone
    \/ Tick(RestartTime + 2 * MaxOverlapTime)
    \/ PassStep("sched", SomePayloads)

SpecStart == InitRestart /\ [][NextStart]_vars

\* The step registers the interval job or starts the scheduler.
Registers ==
    \/ ~scheduler.job /\ scheduler'.job
    \/ ~scheduler.running /\ scheduler'.running

\* The step starts a pass of the given origin in the scheduler's frame.
StartsAs(origin) ==
    /\ pass["sched"].pc = "idle"
    /\ pass'["sched"].pc # "idle"
    /\ pass'["sched"].origin = origin

\* The step is a repeated call of start_scheduler or schedule_api_fetch.
CalledAgain == scheduler'.calls_again # scheduler.calls_again

\* C22: the first pass starts once, at the start of the process and before
\* any job exists; the interval job is registered and the scheduler started
\* only by the step that finds this pass returned, the first fire being due
\* 30 seconds later; every pass of the timer starts at the instant the one
\* job is due, and each due instant is 30 seconds after the last one; a
\* repeated call of start_scheduler or schedule_api_fetch that finds the job
\* starts no pass and leaves the job and the scheduler as they are.
C22_StartupThenInterval ==
    [][ /\ StartsAs("startup") =>
              main_pc = "start" /\ ~scheduler.job /\ ~scheduler.running
        /\ Registers =>
              /\ pass["sched"].origin = "startup"
              /\ pass["sched"].pc = "returned"
              /\ scheduler'.job /\ scheduler'.running
              /\ scheduler'.next_run_time = now + INTERVAL_SECONDS
        /\ StartsAs("timer") =>
              /\ scheduler.job /\ scheduler.running
              /\ now = scheduler.next_run_time
        /\ (scheduler.job /\ scheduler'.next_run_time # scheduler.next_run_time) =>
              /\ now = scheduler.next_run_time
              /\ scheduler'.next_run_time = scheduler.next_run_time + INTERVAL_SECONDS
        /\ (CalledAgain /\ scheduler.job) =>
              /\ UNCHANGED <<pass, incidents, main_pc>>
              /\ scheduler' = [scheduler EXCEPT
                                 !.calls_again = scheduler.calls_again + 1]
      ]_vars

\* The set-up was called again MaxCalls times, and the timer's pass runs at
\* its first due instant after the first pass.
C22_CalledAgainWhileTimerRuns ==
    /\ scheduler.calls_again = MaxCalls
    /\ scheduler.job /\ scheduler.running
    /\ pass["sched"].origin = "timer"
    /\ pass["sched"].pc = "commit"
    /\ pass["sched"].current_time = RestartTime + INTERVAL_SECONDS

----------------------------------------------------------------------------
(* C23 *)

\* Every column of a row but the resolution notes.
ButResolveNotes(r) == [ c \in DOMAIN r \ {"resolve_notes"} |-> r[c] ]

\* C23: once the resolved timestamp of an incident is set, no step of the
\* system (a statement of a pass, respond, reprioritize, manual resolve)
\* changes any of its fields other than the resolution notes.
C23_ResolvedRowImmutable ==
    [][ \A i \in DOMAIN incidents :
            ~IsOpen(incidents[i]) =>
                ButResolveNotes(incidents'[i]) = ButResolveNotes(incidents[i])
      ]_vars

----------------------------------------------------------------------------
(* C24 *)

\* The record is complete and its status is none of the five known ones.
ReportsUnknownStatus(p) ==
    /\ pass[p].pc = "loop"
    /\ IsObject(CurrentRecord(p))
    /\ ~Incomplete(CurrentRecord(p))
    /\ CurrentRecord(p).status \notin ActiveStatuses \cup InactiveStatuses

\* C24: when the loop processes a complete record whose status is none of
\* CRITICAL, ERROR, WARNING, OK, LOG, an open incident of its external id is
\* resolved as an OK or LOG report resolves it (resolved timestamp and
\* last-upstream-update the pass time, status the reported one, responded
\* timestamp back-filled), and without open incident no row is created or
\* changed.
C24_UnknownStatusInactive ==
    [][ \A p \in Procs :
          ( ReportsUnknownStatus(p) /\ StepOf(p) ) =>
              /\ Len(incidents') = Len(incidents)
              /\ \A i \in DOMAIN incidents :
                     incidents'[i] =
                         IF /\ IsOpen(incidents[i])
                            /\ SqlEq(incidents[i].job_api_id, CurrentRecord(p).id)
                            /\ CurrentRecord(p).id \in DOMAIN pass[p].db_active_incidents
                         THEN [incidents[i] EXCEPT
                                 !.resolved_at = pass[p].current_time,
                                 !.status = CurrentRecord(p).status,
                                 !.last_api_update = pass[p].current_time,
                                 !.responded_at =
                                     IF incidents[i].responded_at = NoTime
                                     THEN incidents[i].first_detected_at
                                     ELSE incidents[i].responded_at]
                         ELSE incidents[i] ]_vars

----------------------------------------------------------------------------
(* C25 *)

\* The payload without the records that lack id, name or status.
WithoutIncomplete(jobs) ==
    SelectSeq(jobs, LAMBDA job_data : IsObject(job_data) => ~Incomplete(job_data))

\* Lines 165-258 as a function: the table, the sequence and the seen ids
\* after the loop ran over the first n records of jobs (all of them
\* objects), undisturbed, on the open set `active`.
RECURSIVE AfterLoop(_, _, _, _, _, _)
AfterLoop(rows, seq, active, jobs, t, n) ==
    IF n = 0
    THEN [rows |-> rows, seq |-> seq, seen |-> {}]
    ELSE LET done == AfterLoop(rows, seq, active, jobs, t, n - 1)
             job_data == jobs[n]
             next == Transition(done.rows, done.seq, active, job_data, t)
         IN
         IF Incomplete(job_data)
         THEN done
         ELSE [rows |-> next,
               seq |-> IF Len(next) > Len(done.rows) THEN done.seq + 1 ELSE done.seq,
               seen |-> done.seen \cup {job_data.id}]

\* Lines 268-297 as a function: the table after the sweep visited `todo`.
RECURSIVE AfterSweep(_, _, _)
AfterSweep(rows, todo, t) ==
    IF todo = {}
    THEN rows
    ELSE LET k == CHOOSE key \in todo : TRUE
             due == \E i \in OpenRowsOf(rows, k) :
                        /\ rows[i].last_api_update # NoTime
                        /\ PastGrace(t, rows[i].last_api_update)
         IN
         AfterSweep(IF due THEN ResolveMissing(rows, t, k) ELSE rows,
                    todo \ {k}, t)

\* Lines 143-304 as a function: the table an undisturbed pass of time t
\* leaves when it starts on `rows` with the payload `jobs`, objects only.
AfterPass(rows, seq, jobs, t) ==
    IF ~Truthy(jobs)
    THEN rows
    ELSE LET active == CHOOSE d \in ActiveDicts(rows) : TRUE
             done == AfterLoop(rows, seq, active, jobs, t, Len(jobs))
         IN
         AfterSweep(done.rows, DOMAIN active \ done.seen, t)

\* The thread's pass went through the loop and the sweep and committed, and
\* nobody else wrote the table meanwhile.
CommittedAlone(p) ==
    /\ pass[p].pc = "returned"
    /\ Truthy(pass[p].api_jobs)
    /\ pass[p].error = None
    /\ pass[p].disturbed = "no"

\* C25: records that lack id, name or status are skipped and the pass goes
\* on to commit: the table a pass leaves is the table the same pass leaves
\* on the same payload with these records removed.
C25_IncompleteRecordsSkipped ==
    \A p \in Procs :
        CommittedAlone(p) =>
            incidents =
                AfterPass(pass[p].before,
                          incident_id_seq - (Len(incidents) - Len(pass[p].before)),
                          WithoutIncomplete(pass[p].api_jobs),
                          pass[p].current_time)

\* The same with the payload as it is: the function is the pass.
AfterPassIsThePass ==
    \A p \in Procs :
        CommittedAlone(p) =>
            incidents =
                AfterPass(pass[p].before,
                          incident_id_seq - (Len(incidents) - Len(pass[p].before)),
                          pass[p].api_jobs,
                          pass[p].current_time)

----------------------------------------------------------------------------
(* C26 *)

\* The record is complete, reports OK or LOG, and the table has no open
\* incident of its external id.
ReportsHealthy(p) ==
    /\ pass[p].pc = "loop"
    /\ IsObject(CurrentRecord(p))
    /\ ~Incomplete(CurrentRecord(p))
    /\ CurrentRecord(p).status \in InactiveStatuses
    /\ OpenRowsOf(incidents, CurrentRecord(p).id) = {}

\* C26: when the loop processes a complete record with status OK or LOG
\* for an external id that has no open incident, the table stays as it is:
\* no row is created, and the resolved rows of that id keep every field.
C26_HealthyReportChangesNothing ==
    [][ \A p \in Procs :
          ( ReportsHealthy(p) /\ StepOf(p) ) =>
              /\ incidents' = incidents
              /\ incident_id_seq' = incident_id_seq ]_vars

\* A pass went over an OK report of j1, whose incident was resolved before.
C26_OkAfterResolution ==
    \E p \in Procs :
        /\ pass[p].pc = "commit"
        /\ pass[p].api_jobs = <<Ok>>
        /\ pass[p].api_job_ids_seen = {"j1"}
        /\ "j1" \notin DOMAIN pass[p].db_active_incidents
        /\ pass[p].disturbed = "no"
        /\ incidents = pass[p].before
        /\ \E i \in DOMAIN incidents :
               incidents[i].job_api_id = "j1" /\ ~IsOpen(incidents[i])

----------------------------------------------------------------------------
(* C27 *)

\* The step of thread p is the failure of its ledger step: a statement
\* between the read of the open set and the commit raises, or the handler
\* of lines 306-310 runs.
LedgerStepFails(p) ==
    /\ StepOf(p)
    /\ pass[p].pc \in {"read", "loop", "sweep", "resolve_missing", "commit", "except"}
    /\ pass'[p].pc \in {"except", "raised"}

\* C27: a failure of the ledger step leaves the error feed (has_error,
\* last_error, last_error_time) as the fetch step left it, and when its
\* handler has run the pass is rolled back: the table is the one the pass
\* started on.
C27_LedgerFailureRolledBackQuietly ==
    [][ \A p \in Procs :
          LedgerStepFails(p) =>
              /\ api_error_state' = api_error_state
              /\ ( pass'[p].pc = "raised" /\ pass[p].disturbed = "no" ) =>
                     incidents' = pass[p].before ]_vars

\* The error-feed half alone.
LedgerFailureKeepsErrorFeed ==
    [][ \A p \in Procs :
          LedgerStepFails(p) => api_error_state' = api_error_state ]_vars

----------------------------------------------------------------------------
(* C28 *)

\* No external id occurs in two records of the payload.
NoIdTwice(jobs) ==
    \A m, n \in DOMAIN jobs :
        ( m # n /\ IsObject(jobs[m]) /\ IsObject(jobs[n]) ) =>
            ~SqlEq(jobs[m].id, jobs[n].id)

UniquePayloads == { jobs \in Payloads \cup FewPayloads : NoIdTwice(jobs) }

\* Passes one at a time: a manual refresh waits for the scheduler's pass
\* and the interval job for a manual one, each pass fetching a payload
\* without repeated id; the requests of the CRUD layer arrive at any moment.
NextSerial ==
    \/ StartScheduler
    \/ StartupDone
    \/ TimerFire /\ pass["manual"].pc = "idle"
    \/ TimerDone
    \/ RefreshData /\ pass["sched"].pc = "idle"
    \/ RefreshDone
    \/ RespondIncident
    \/ UpdateIncidentPriority
    \/ ResolveIncident
    \/ Tick(RestartTime + 2 * MaxOverlapTime)
    \/ \E p \in Procs : PassStep(p, UniquePayloads)

SpecSerial == InitRestart /\ [][NextSerial]_vars

\* C28: when passes run one at a time and no payload lists an external id
\* twice, then after any sequence of passes and human actions each external
\* id has at most one open incident.
C28_SerialPassesOneOpenRow ==
    \A job_api_id \in JobIds :
        Cardinality(OpenRowsOf(incidents, job_api_id)) <= 1

\* An engineer resolved the incident of j1 by hand, and a later pass found
\* j1 failing and opened a new one.
C28_ReopenedAfterManualResolve ==
    \E i, j \in DOMAIN incidents :
        /\ incidents[i].job_api_id = "j1"
        /\ incidents[i].resolve_notes = "notes"
        /\ ~IsOpen(incidents[i])
        /\ incidents[j].job_api_id = "j1"
        /\ IsOpen(incidents[j])
        /\ incidents[j].first_detected_at >= incidents[i].resolved_at

----------------------------------------------------------------------------
(* C29 *)

\* The external ids the payload reports as failing in a complete record.
ReportedActive(jobs) ==
    { jobs[n].id : n \in { m \in DOMAIN jobs :
                             /\ IsObject(jobs[m])
                             /\ ~Incomplete(jobs[m])
                             /\ jobs[m].status \in ActiveStatuses } }

\* C29: when a pass commits, every external id that a complete record of
\* its payload reported with an active status has an open incident, also
\* when the payload lists the id twice or a human resolved the incident
\* while the pass was in its loop (a write that comes after the loop is
\* left out of the statement).
C29_ReportedActiveIsOpen ==
    [][ \A p \in Procs :
          ( /\ pass[p].pc = "commit"
            /\ StepOf(p)
            /\ pass[p].disturbed \in {"no", "read", "loop"} ) =>
              \A job_api_id \in ReportedActive(pass[p].api_jobs) :
                  OpenRowsOf(incidents', job_api_id) # {} ]_vars

----------------------------------------------------------------------------
(* C30 *)

\* The thread's GET succeeded with the empty list, and the thread is at one
\* of the statements of lines 124-145.
FetchedEmpty(p) ==
    /\ pass[p].pc \in {"cache_data", "cache_time", "clear_flag", "clear_text"}
    /\ pass[p].api_jobs = <<>>

\* C30: a pass whose fetch succeeds with the empty list stores the empty
\* payload and the pass time in the cache and clears the error flag, and
\* then returns: none of its statements changes a row or writes the
\* last-refresh marker, it never reads the table, loops, sweeps or commits;
\* and a pass that starts on a cache holding the empty payload sends a
\* request, however recent the fetch.
C30_EmptyPayloadNoReconciliation ==
    [][ \A p \in Procs :
          /\ ( FetchedEmpty(p) /\ StepOf(p) ) =>
                /\ incidents' = incidents
                /\ incident_id_seq' = incident_id_seq
                /\ last_refresh_time' = last_refresh_time
                /\ pass'[p].pc \in {"cache_time", "clear_flag", "clear_text", "returned"}
                /\ pass[p].pc = "cache_data" =>
                       api_data_cache'.data = <<>> /\ ~api_data_cache'.is_none
                /\ pass[p].pc = "cache_time" =>
                       api_data_cache'.last_fetched = pass[p].current_time
                /\ pass[p].pc = "clear_flag" => ~api_error_state'.has_error
          /\ ( Starts(p) /\ api_data_cache.data = <<>> ) => pass'[p].pc = "fetch"
      ]_vars

\* A pass returned from the fetch of an empty list: the cache holds the
\* empty payload and the pass time, the error flag is down, the marker is
\* the one the pass found, and an incident unreported for longer than the
\* grace period is still open.
C30_ReturnedOnEmptyList ==
    \E p \in Procs :
        /\ pass[p].pc = "returned"
        /\ pass[p].api_jobs = <<>>
        /\ pass[p].error = None
        /\ ~api_data_cache.is_none
        /\ api_data_cache.data = <<>>
        /\ api_data_cache.last_fetched = pass[p].current_time
        /\ ~api_error_state.has_error
        /\ last_refresh_time = pass[p].refresh_before
        /\ \E i \in DOMAIN incidents :
               /\ IsOpen(incidents[i])
               /\ PastGrace(pass[p].current_time, incidents[i].last_api_update)

----------------------------------------------------------------------------
(* C31 *)

\* C31: in every state, an incident that has both a responded and a
\* resolved timestamp was resolved not earlier than it was responded to,
\* also when a human responds while a pass that resolves the incident runs,
\* or after a pass resolved it.
C31_ResolvedAfterResponded ==
    \A i \in DOMAIN incidents :
        ( incidents[i].responded_at # NoTime /\ incidents[i].resolved_at # NoTime )
        => incidents[i].resolved_at >= incidents[i].responded_at

----------------------------------------------------------------------------
(* C32 *)

\* The step of thread p completes a pass that committed.
CompletesCommitted(p) ==
    /\ StepOf(p)
    /\ pass[p].pc = "commit"
    /\ pass'[p].pc = "returned"

\* No other thread is in the middle of the assignments that follow its
\* fetch (lines 113-115, 124-128, 132-134, 138-140).
NobodyRecordsFetch(p) ==
    \A q \in Procs \ {p} :
        pass[q].pc \notin {"error_flag", "error_text", "error_time",
                           "cache_data", "cache_time", "clear_flag", "clear_text"}

\* C32: under any interleaving of the timer's passes and manual ones the
\* error feed reflects the most recent pass: when a pass completes with a
\* commit (and no other pass is recording the outcome of its fetch at that
\* moment), it is the most recently completed pass and did not fail, so
\* has_error is false.
C32_ErrorFeedOfLatestPass ==
    [][ \A p \in Procs :
          ( CompletesCommitted(p) /\ NobodyRecordsFetch(p) ) =>
              ~api_error_state'.has_error ]_vars

----------------------------------------------------------------------------
(* C33 *)

\* Lines 40-45 as the spec reads them: no error text without the flag, and
\* with the flag an error text and an error time.
FeedWellFormed(e) ==
    /\ ~e.has_error => e.last_error = None
    /\ e.has_error => ( e.last_error # None /\ e.last_error_time # NoTime )

\* No thread is in the middle of the assignments that follow its fetch.
FeedAtRest(frames) ==
    \A q \in Procs :
        frames[q].pc \notin {"error_flag", "error_text", "error_time",
                             "cache_data", "cache_time", "clear_flag", "clear_text"}

\* C33: the error feed is well-formed whenever no thread is half-way
\* through writing it (has_error false implies no error text; has_error
\* true implies an error text and an error time), and the error time, once
\* set, is never reset to null and never decreases.
C33_ErrorFeedWellFormed ==
    [][ /\ FeedAtRest(pass') => FeedWellFormed(api_error_state')
        /\ api_error_state.last_error_time # NoTime =>
               api_error_state'.last_error_time >= api_error_state.last_error_time
      ]_vars

\* The first half alone, and the second half alone.
FeedWellFormedAtRest ==
    FeedAtRest(pass) => FeedWellFormed(api_error_state)

ErrorTimeNeverDecreases ==
    [][ api_error_state.last_error_time # NoTime =>
            api_error_state'.last_error_time >= api_error_state.last_error_time
      ]_vars

----------------------------------------------------------------------------
(* C34 *)

\* C34: the last-upstream-update timestamp of an incident never decreases:
\* every write of a pass sets a value not earlier than the one it replaces,
\* also when the timer's pass and a manual pass overlap.
C34_LastSeenNeverDecreases ==
    [][ \A i \in DOMAIN incidents :
            incidents'[i].last_api_update >= incidents[i].last_api_update
      ]_vars

----------------------------------------------------------------------------
(* C35 *)

\* app.py lines 563-580: INSERT INTO incidents (job_name, status, priority,
\* log_url, notes, first_detected_at, last_api_update) VALUES (...): the
\* external job id stays NULL.
InsertByHand(rows, id, job_name, status, priority, log_url, notes, t) ==
    Append(rows, [NewRow(id, None, job_name, status, log_url, t) EXCEPT
                     !.priority = priority, !.notes = notes])

\* app.py lines 547-587: POST /add-incident with job name, status and priority.
AddIncident ==
    /\ main_pc = "serving"
    /\ requests < MaxRequests
    /\ Len(incidents) < MaxRows
    /\ incidents' = InsertByHand(incidents, incident_id_seq, "Router", "CRITICAL",
                                 "P1", None, "by hand", now)
    /\ incident_id_seq' = incident_id_seq + 1
    /\ pass' = Disturb(pass, "crud")
    /\ requests' = requests + 1
    /\ UNCHANGED <<now, api_data_cache, api_error_state, last_refresh_time,
                   scheduler, main_pc, MOCK_API_URL, last_reported>>

\* A record without external id, and the answers explored with incidents
\* added by hand.
Unidentified == JobRecord(None, "Router", "OK", "u1")

HandPayloads == FewPayloads \cup {<<Unidentified>>, <<Unidentified, Critical>>}

\* Files an earlier run left behind in which an incident was added by hand
\* at instant 0, alone or beside the open incident of j1.
ByHand == InsertByHand(<<>>, 1, "Router", "CRITICAL", "P1", None, "by hand", 0)

HandDatabases ==
    { [ incidents |-> ByHand, incident_id_seq |-> 2, last_refresh_time |-> 0,
        reported |-> NoTime ],
      [ incidents |-> InsertByHand(Detected, 2, "Router", "CRITICAL", "P1", None,
                                   "by hand", 0),
        incident_id_seq |-> 3, last_refresh_time |-> 0, reported |-> 0 ] }

InitByHand == \E stored \in HandDatabases : Boot(RestartTime, stored)

\* The threads after a restart on such a file, with POST /add-incident.
NextByHand ==
    \/ StartScheduler
    \/ StartupDone
    \/ TimerFire
    \/ TimerDone
    \/ RefreshData
    \/ RefreshDone
    \/ AddIncident
    \/ Tick(RestartTime + MaxOverlapTime)
    \/ \E p \in Procs : PassStep(p, HandPayloads)

SpecByHand == InitByHand /\ [][NextByHand]_vars

\* C35: no statement of a pass changes a field of an incident that was
\* added by hand (external job id NULL): not its status, log or
\* last-upstream-update, and not its resolved timestamp, however old it is
\* and whatever the payload holds; several such incidents stay open side by
\* side.
C35_HandAddedUntouched ==
    [][ PassStatement =>
          \A i \in DOMAIN incidents :
              incidents[i].job_api_id = None => incidents'[i] = incidents[i]
      ]_vars

\* A pass that read two open hand-added incidents, one of them older than
\* the grace period, went through its sweep and committed: both are open.
C35_TwoByHandOpenAfterSweep ==
    \E p \in Procs :
        /\ pass[p].pc = "returned"
        /\ Truthy(pass[p].api_jobs)
        /\ pass[p].error = None
        /\ None \in DOMAIN pass[p].db_active_incidents
        /\ None \notin pass[p].api_job_ids_seen
        /\ \E i, j \in DOMAIN incidents :
               /\ i # j
               /\ incidents[i].job_api_id = None /\ IsOpen(incidents[i])
               /\ incidents[j].job_api_id = None /\ IsOpen(incidents[j])
               /\ PastGrace(pass[p].current_time, incidents[i].last_api_update)
               /\ incidents[j].first_detected_at <= pass[p].current_time

====
